---- MODULE Spec2Model ----
(***************************************************************************)
(* Telegraph AI Agent: the Morse Engine (shared/morse-lib.js) and the      *)
(* HTTP transmit endpoint (server/index.js).                               *)
(*                                                                         *)
(* A JavaScript string is a sequence of UTF-16 code units; a code unit is  *)
(* written as a one-character TLA+ string, or as "U+XXXX" when it is not   *)
(* ASCII.  A JavaScript value is a record [type, val]: val holds the code  *)
(* units of a string, the entries of an array, or the number of a number.  *)
(***************************************************************************)
EXTENDS Integers, Sequences, FiniteSets, TLC

----------------------------------------------------------------------------
(* JavaScript values *)

Str(s) == [type |-> "string", val |-> s]

Arr(a) == [type |-> "array", val |-> a]

Num(n) == [type |-> "number", val |-> <<n>>]

Bool(b) == [type |-> "boolean", val |-> <<b>>]

Null == [type |-> "null", val |-> <<>>]

Undefined == [type |-> "undefined", val |-> <<>>]

Obj == [type |-> "object", val |-> <<>>]

\* the outcome of a call that threw (a method called on a value without it)
TypeError == [type |-> "TypeError", val |-> <<>>]

\* the state of a variable no call has written yet
Unset == [type |-> "unset", val |-> <<>>]

typeof(v) ==
  CASE v.type = "string" -> "string"
    [] v.type = "number" -> "number"
    [] v.type = "boolean" -> "boolean"
    [] v.type = "undefined" -> "undefined"
    [] v.type = "function" -> "function"
    [] OTHER -> "object"

\* ToBoolean: what `if (x)` and `!x` test
Truthy(v) ==
  CASE v.type = "string" -> v.val # <<>>
    [] v.type = "number" -> v.val[1] # 0
    [] v.type = "boolean" -> v.val[1] = 1
    [] v.type \in {"null", "undefined"} -> FALSE
    [] OTHER -> TRUE

\* ToString as Array.prototype.join applies it to an element
ToStringChars(v) ==
  IF v.type \in {"string", "function", "prototype"} THEN v.val ELSE <<>>

----------------------------------------------------------------------------
(* String.prototype methods *)

Lower ==
  <<"a", "b", "c", "d", "e", "f", "g", "h", "i", "j", "k", "l", "m",
    "n", "o", "p", "q", "r", "s", "t", "u", "v", "w", "x", "y", "z">>

Upper ==
  <<"A", "B", "C", "D", "E", "F", "G", "H", "I", "J", "K", "L", "M",
    "N", "O", "P", "Q", "R", "S", "T", "U", "V", "W", "X", "Y", "Z">>

\* the uppercase mapping of one code unit; U+00DF (sharp s) becomes "SS"
\* and U+00E9 (e with acute) becomes U+00C9
UpperOf(c) ==
  IF \E i \in 1..26 : Lower[i] = c
  THEN <<Upper[CHOOSE i \in 1..26 : Lower[i] = c]>>
  ELSE IF c = "U+00DF" THEN <<"S", "S">>
  ELSE IF c = "U+00E9" THEN <<"U+00C9">>
  ELSE <<c>>

RECURSIVE UpperChars(_)
UpperChars(s) ==
  IF s = <<>> THEN <<>> ELSE UpperOf(Head(s)) \o UpperChars(Tail(s))

toUpperCase(v) ==
  IF v.type = "string" THEN Str(UpperChars(v.val)) ELSE TypeError

WhiteSpace == {" ", "\t", "\n", "\r", "U+00A0"}

RECURSIVE TrimStart(_)
TrimStart(s) ==
  IF s # <<>> /\ Head(s) \in WhiteSpace THEN TrimStart(Tail(s)) ELSE s

RECURSIVE TrimEnd(_)
TrimEnd(s) ==
  IF s # <<>> /\ s[Len(s)] \in WhiteSpace
  THEN TrimEnd(SubSeq(s, 1, Len(s) - 1)) ELSE s

trim(v) ==
  IF v.type = "string" THEN Str(TrimEnd(TrimStart(v.val))) ELSE TypeError

\* the positions of s, in increasing order
Indices(s) == [i \in 1..Len(s) |-> i]

\* s.split(sep) for a one-character separator: the pieces between the
\* separators, empty pieces included
SplitChars(s, sep) ==
  LET IsSep(i) == s[i] = sep
      seps == SelectSeq(Indices(s), IsSep)
      n == Len(seps)
      \* the position of the k-th separator; 0 and Len(s) + 1 bound the string
      pos(k) == IF k = 0 THEN 0
                ELSE IF k = n + 1 THEN Len(s) + 1
                ELSE seps[k]
  IN  [k \in 1..(n + 1) |-> SubSeq(s, pos(k - 1) + 1, pos(k) - 1)]

split(v, sep) ==
  IF v.type = "string" THEN SplitChars(v.val, sep) ELSE TypeError

\* Array.prototype.join over an array of JavaScript values
RECURSIVE join(_, _)
join(a, sep) ==
  IF a = <<>> THEN <<>>
  ELSE IF Len(a) = 1 THEN ToStringChars(a[1])
  ELSE ToStringChars(a[1]) \o sep \o join(Tail(a), sep)

\* s.includes(needle)
includes(s, needle) ==
  \E i \in 1..(Len(s) - Len(needle) + 1) :
    SubSeq(s, i, i + Len(needle) - 1) = needle

----------------------------------------------------------------------------
(* The character table *)

\* the object literal, in source order
TableLiteral ==
  << <<"A", <<".", "-">>>>, <<"B", <<"-", ".", ".", ".">>>>, <<"C", <<"-", ".", "-", ".">>>>,
     <<"D", <<"-", ".", ".">>>>, <<"E", <<".">>>>, <<"F", <<".", ".", "-", ".">>>>,
     <<"G", <<"-", "-", ".">>>>, <<"H", <<".", ".", ".", ".">>>>, <<"I", <<".", ".">>>>,
     <<"J", <<".", "-", "-", "-">>>>, <<"K", <<"-", ".", "-">>>>, <<"L", <<".", "-", ".", ".">>>>,
     <<"M", <<"-", "-">>>>, <<"N", <<"-", ".">>>>, <<"O", <<"-", "-", "-">>>>,
     <<"P", <<".", "-", "-", ".">>>>, <<"Q", <<"-", "-", ".", "-">>>>, <<"R", <<".", "-", ".">>>>,
     <<"S", <<".", ".", ".">>>>, <<"T", <<"-">>>>, <<"U", <<".", ".", "-">>>>,
     <<"V", <<".", ".", ".", "-">>>>, <<"W", <<".", "-", "-">>>>, <<"X", <<"-", ".", ".", "-">>>>,
     <<"Y", <<"-", ".", "-", "-">>>>, <<"Z", <<"-", "-", ".", ".">>>>, <<"0", <<"-", "-", "-", "-", "-">>>>,
     <<"1", <<".", "-", "-", "-", "-">>>>, <<"2", <<".", ".", "-", "-", "-">>>>, <<"3", <<".", ".", ".", "-", "-">>>>,
     <<"4", <<".", ".", ".", ".", "-">>>>, <<"5", <<".", ".", ".", ".", ".">>>>, <<"6", <<"-", ".", ".", ".", ".">>>>,
     <<"7", <<"-", "-", ".", ".", ".">>>>, <<"8", <<"-", "-", "-", ".", ".">>>>, <<"9", <<"-", "-", "-", "-", ".">>>>,
     <<".", <<".", "-", ".", "-", ".", "-">>>>, <<",", <<"-", "-", ".", ".", "-", "-">>>>, <<"?", <<".", ".", "-", "-", ".", ".">>>>,
     <<"'", <<".", "-", "-", "-", "-", ".">>>>, <<"!", <<"-", ".", "-", ".", "-", "-">>>>, <<"/", <<"-", ".", ".", "-", ".">>>>,
     <<"(", <<"-", ".", "-", "-", ".">>>>, <<")", <<"-", ".", "-", "-", ".", "-">>>>, <<"&", <<".", "-", ".", ".", ".">>>>,
     <<":", <<"-", "-", "-", ".", ".", ".">>>>, <<";", <<"-", ".", "-", ".", "-", ".">>>>, <<"=", <<"-", ".", ".", ".", "-">>>>,
     <<"+", <<".", "-", ".", "-", ".">>>>, <<"-", <<"-", ".", ".", ".", ".", "-">>>>, <<"_", <<".", ".", "-", "-", ".", "-">>>>,
     <<"\"", <<".", "-", ".", ".", "-", ".">>>>, <<"$", <<".", ".", ".", "-", ".", ".", "-">>>>, <<"@", <<".", "-", "-", ".", "-", ".">>>>,
     <<" ", <<"/">>>> >>

\* integer-like property names, which Object.entries lists first, ascending
IntegerKeys == <<"0", "1", "2", "3", "4", "5", "6", "7", "8", "9">>

IsIntegerKey(e) == \E i \in 1..Len(IntegerKeys) : IntegerKeys[i] = e[1]

NotIntegerKey(e) == ~IsIntegerKey(e)

LiteralEntry(k) == TableLiteral[CHOOSE i \in 1..Len(TableLiteral) : TableLiteral[i][1] = k]

\* Object.entries(TEXT_TO_MORSE_MAP)
ObjectEntries ==
  [i \in 1..Len(IntegerKeys) |-> LiteralEntry(IntegerKeys[i])]
    \o SelectSeq(TableLiteral, NotIntegerKey)

\* property names are strings: the key of character c is <<c>>
TEXT_TO_MORSE_MAP ==
  [k \in {<<TableLiteral[i][1]>> : i \in 1..Len(TableLiteral)} |->
     LiteralEntry(k[1])[2]]

\* the reduce with key and value not swapped (acc[char] = morse)
MORSE_TO_TEXT_MAP_Unswapped ==
  [k \in {<<ObjectEntries[i][1]>> : i \in 1..Len(ObjectEntries)} |->
     LiteralEntry(k[1])[2]]

\* the reduce of lines 22-26: a later entry overwrites an earlier one
MORSE_TO_TEXT_MAP ==
  [m \in {ObjectEntries[i][2] : i \in 1..Len(ObjectEntries)} |->
     LET last == CHOOSE i \in 1..Len(ObjectEntries) :
                   /\ ObjectEntries[i][2] = m
                   /\ \A j \in (i + 1)..Len(ObjectEntries) : ObjectEntries[j][2] # m
     IN  <<ObjectEntries[last][1]>>]

\* both tables are plain objects ({...} and the {} given to reduce), so a
\* lookup that misses the own properties finds the members of
\* Object.prototype; val is the member's string conversion
FunctionMembers ==
  { <<"c", "o", "n", "s", "t", "r", "u", "c", "t", "o", "r">>,
    <<"_", "_", "d", "e", "f", "i", "n", "e", "G", "e", "t", "t", "e", "r", "_", "_">>,
    <<"_", "_", "d", "e", "f", "i", "n", "e", "S", "e", "t", "t", "e", "r", "_", "_">>,
    <<"h", "a", "s", "O", "w", "n", "P", "r", "o", "p", "e", "r", "t", "y">>,
    <<"_", "_", "l", "o", "o", "k", "u", "p", "G", "e", "t", "t", "e", "r", "_", "_">>,
    <<"_", "_", "l", "o", "o", "k", "u", "p", "S", "e", "t", "t", "e", "r", "_", "_">>,
    <<"i", "s", "P", "r", "o", "t", "o", "t", "y", "p", "e", "O", "f">>,
    <<"p", "r", "o", "p", "e", "r", "t", "y", "I", "s", "E", "n", "u", "m", "e", "r", "a", "b", "l", "e">>,
    <<"t", "o", "S", "t", "r", "i", "n", "g">>,
    <<"v", "a", "l", "u", "e", "O", "f">>,
    <<"t", "o", "L", "o", "c", "a", "l", "e", "S", "t", "r", "i", "n", "g">> }

ProtoName == <<"_", "_", "p", "r", "o", "t", "o", "_", "_">>

FunctionText(name) ==
  <<"f", "u", "n", "c", "t", "i", "o", "n", " ">> \o name
    \o <<"(", ")", " ", "{", " ", "[", "n", "a", "t", "i", "v", "e", " ", "c", "o", "d", "e", "]", " ", "}">>

ObjectPrototype ==
  [name \in FunctionMembers \cup {ProtoName} |->
     IF name = ProtoName
     THEN [type |-> "prototype", val |-> <<"[", "o", "b", "j", "e", "c", "t", " ", "O", "b", "j", "e", "c", "t", "]">>]
     ELSE [type |-> "function", val |-> FunctionText(name)]]

\* obj[name] on a plain object
GetProperty(obj, name) ==
  IF name \in DOMAIN obj THEN Str(obj[name])
  ELSE IF name \in DOMAIN ObjectPrototype THEN ObjectPrototype[name]
  ELSE Undefined

\* the error indicator of line 92, U+FFFD
ERROR_MARKER == "U+FFFD"

----------------------------------------------------------------------------
(* textToMorse *)

\* EncodeChar with an empty code pushed for a character outside the table
EncodeChar_Placeholder(char) ==
  LET morse == GetProperty(TEXT_TO_MORSE_MAP, <<char>>)
  IN  IF Truthy(morse) THEN <<morse>> ELSE <<Str(<<>>)>>

\* the body of the loop of lines 45-53: what one character pushes
EncodeChar(char) ==
  LET morse == GetProperty(TEXT_TO_MORSE_MAP, <<char>>)
  IN  IF Truthy(morse) THEN <<morse>> ELSE <<>>

RECURSIVE EncodeLoop(_, _)
EncodeLoop(upperText, i) ==
  IF i > Len(upperText) THEN <<>>
  ELSE EncodeChar(upperText[i]) \o EncodeLoop(upperText, i + 1)

textToMorse(text) ==
  IF text.type \in {"null", "undefined"} THEN Str(<<>>)
  ELSE IF typeof(text) # "string" THEN Str(<<>>)
  ELSE LET upperText == toUpperCase(text)
       IN  IF upperText.type = "TypeError" THEN TypeError
           ELSE Str(join(EncodeLoop(upperText.val, 1), <<" ">>))

----------------------------------------------------------------------------
(* morseToText *)

\* DecodeToken with the word separator skipped like an empty token
DecodeToken_SeparatorSkipped(morseChar) ==
  IF morseChar = <<>> \/ morseChar = <<"/">> THEN <<>>
  ELSE LET char == GetProperty(MORSE_TO_TEXT_MAP, morseChar)
       IN  IF Truthy(char) THEN <<char>> ELSE <<Str(<<ERROR_MARKER>>)>>

\* the body of the loop of lines 79-94: what one token pushes
DecodeToken(morseChar) ==
  IF morseChar = <<>> THEN <<>>
  ELSE LET char == GetProperty(MORSE_TO_TEXT_MAP, morseChar)
       IN  IF Truthy(char) THEN <<char>> ELSE <<Str(<<ERROR_MARKER>>)>>

RECURSIVE DecodeLoop(_, _)
DecodeLoop(morseChars, i) ==
  IF i > Len(morseChars) THEN <<>>
  ELSE DecodeToken(morseChars[i]) \o DecodeLoop(morseChars, i + 1)

morseToText(morse) ==
  IF morse.type \in {"null", "undefined"} THEN Str(<<>>)
  ELSE IF typeof(morse) # "string" THEN Str(<<>>)
  ELSE LET trimmed == trim(morse)
       IN  IF trimmed.type = "TypeError" THEN TypeError
           ELSE IF trimmed.val = <<>> THEN Str(<<>>)
           ELSE Str(join(DecodeLoop(split(morse, " "), 1), <<>>))

----------------------------------------------------------------------------
(* morseToTiming *)

DOT_DURATION == 100

DASH_DURATION == 300

ELEMENT_GAP == 100

\* CHAR_GAP taken as three dashes instead of three units
CHAR_GAP_ThreeDashes == 3 * DASH_DURATION

CHAR_GAP == 300

WORD_GAP == 700

\* SymbolLoop with the dash branch never taken
RECURSIVE SymbolLoop_DashMissed(_, _)
SymbolLoop_DashMissed(morseChar, j) ==
  IF j > Len(morseChar) THEN <<>>
  ELSE (IF morseChar[j] = "." THEN <<DOT_DURATION>> ELSE <<>>)
       \o (IF j < Len(morseChar) THEN <<ELEMENT_GAP>> ELSE <<>>)
       \o SymbolLoop_DashMissed(morseChar, j + 1)

\* the loop of lines 150-163 over the symbols of one token
RECURSIVE SymbolLoop(_, _)
SymbolLoop(morseChar, j) ==
  IF j > Len(morseChar) THEN <<>>
  ELSE (IF morseChar[j] = "." THEN <<DOT_DURATION>>
        ELSE IF morseChar[j] = "-" THEN <<DASH_DURATION>>
        ELSE <<>>)
       \o (IF j < Len(morseChar) THEN <<ELEMENT_GAP>> ELSE <<>>)
       \o SymbolLoop(morseChar, j + 1)

\* the body of the loop of lines 133-172: what the token at index i pushes
\* (indices from 1, so `i < morseChars.length - 1` is i < Len(morseChars))
TokenTiming(morseChars, i) ==
  LET morseChar == morseChars[i]
  IN  IF morseChar = <<>> THEN <<>>
      ELSE IF morseChar = <<"/">>
      THEN (IF i < Len(morseChars) THEN <<0, WORD_GAP>> ELSE <<>>)
      ELSE SymbolLoop(morseChar, 1)
           \o (IF i < Len(morseChars)
               THEN LET nextChar == morseChars[i + 1]
                    IN  IF nextChar # <<"/">> /\ nextChar # <<>>
                        THEN <<CHAR_GAP>> ELSE <<>>
               ELSE <<>>)

RECURSIVE TimingLoop(_, _)
TimingLoop(morseChars, i) ==
  IF i > Len(morseChars) THEN <<>>
  ELSE TokenTiming(morseChars, i) \o TimingLoop(morseChars, i + 1)

\* morseToTiming without the guards on the argument's type
morseToTiming_NoTypeCheck(morse) ==
  LET trimmed == trim(morse)
  IN  IF trimmed.type = "TypeError" THEN TypeError
      ELSE IF trimmed.val = <<>> THEN Arr(<<>>)
      ELSE Arr(TimingLoop(split(morse, " "), 1))

morseToTiming(morse) ==
  IF morse.type \in {"null", "undefined"} THEN Arr(<<>>)
  ELSE IF typeof(morse) # "string" THEN Arr(<<>>)
  ELSE LET trimmed == trim(morse)
       IN  IF trimmed.type = "TypeError" THEN TypeError
           ELSE IF trimmed.val = <<>> THEN Arr(<<>>)
           ELSE Arr(TimingLoop(split(morse, " "), 1))

----------------------------------------------------------------------------
(* Callers of the engine: the inputs they pass *)

MaxTextLen == 4

MaxPieces == 4

SeqsUpTo(S, n) == UNION {[1..k -> S] : k \in 0..n}

RECURSIVE Flatten(_)
Flatten(pieces) ==
  IF pieces = <<>> THEN <<>> ELSE Head(pieces) \o Flatten(Tail(pieces))

\* characters a text is typed from: letters of both cases, a space, table
\* punctuation, a character outside the table and one whose uppercase
\* mapping is two characters
TextAlphabet == {"a", "B", " ", ".", "/", "#", "U+00DF"}

TextInputs == {Str(t) : t \in SeqsUpTo(TextAlphabet, MaxTextLen)}

\* fragments a Morse string is put together from
MorsePieces ==
  {<<".">>, <<"-">>, <<" ">>, <<"/">>, <<"x">>,
   <<"v", "a", "l", "u", "e", "O", "f">>}

MorseInputs == {Str(Flatten(p)) : p \in SeqsUpTo(MorsePieces, MaxPieces)}

NonStrings == {Null, Undefined, Num(0), Num(42), Bool(0), Bool(1), Obj, Arr(<<>>)}

\* a caller of the engine: the text it encoded, the Morse value it holds,
\* where that value came from, and the results of decoding and timing it
VARIABLES input, morseStr, origin, decoded, timing

\* the transmit endpoint: the request body, the handler's position, the
\* text decoded at line 65, the message given to invokeOperatorAI and the
\* response sent
VARIABLES request, pc, decodedText, aiMessage, response

\* a call of invokeOperatorAI: the message, what the API call came to, and
\* the reply it resolved to (or what it threw)
VARIABLES personaMessage, personaApi, personaReply

\* the MCP tool: the request given to handleRequest and what the call
\* came to
VARIABLES mcpRequest, mcpResponse

\* the TelegraphKey component: its state (isPressed, currentSequence,
\* transmissionStatus), its refs (sequenceRef; lastInputTimeRef is TRUE when
\* it holds a time; pressElapsed is the time since pressStartTimeRef), the
\* time left on the character-break timeout (NoTimer when none is
\* pending) and on the pending status timeouts, the disabled prop, the
\* number of calls of onTransmissionComplete and the calls whose promise
\* has not settled, and the handler that ran last
VARIABLES isPressed, pressElapsed, currentSequence, sequenceRef,
          transmissionStatus, lastInputTimeRef, breakTimer, statusTimers,
          disabled, sends, calls, lastHandler

\* the App component: its state
VARIABLES isSending, isPlayingResponse, errorMessage, responseText,
          isInitialized

\* the tones playMorseSequence has scheduled on the audio context and that
\* have not sounded yet
VARIABLE tones

engineVars == <<input, morseStr, origin, decoded, timing>>

serverVars == <<request, pc, decodedText, aiMessage, response>>

personaVars == <<personaMessage, personaApi, personaReply>>

mcpVars == <<mcpRequest, mcpResponse>>

\* the stdio loop of the MCP server: the bytes the client writes to the
\* server's stdin over the life of the process, how many of them have been
\* delivered in 'data' events, the loop's buffer of undispatched text, the
\* responses written to stdout, and where the process is ("idle" before the
\* client has written, "reading", "exited" after the 'end' event)
VARIABLES stdin, consumed, buffer, stdout, stdioState

stdioVars == <<stdin, consumed, buffer, stdout, stdioState>>

\* what an observer of the key records: the time since the last symbol was
\* keyed, the symbols keyed since the last break, successful send or
\* clear, and how long the last completed press lasted
VARIABLES sinceInput, keyed, lastPress

observed == <<sinceInput, keyed, lastPress>>

keyVars ==
  <<isPressed, pressElapsed, currentSequence, sequenceRef, transmissionStatus,
    lastInputTimeRef, breakTimer, statusTimers, disabled, sends, calls,
    lastHandler, observed>>

appVars ==
  <<isSending, isPlayingResponse, errorMessage, responseText, isInitialized,
    tones>>

vars ==
  <<engineVars, serverVars, personaVars, mcpVars, keyVars, appVars, stdioVars>>

\* what the actions of one component leave alone
outsideEngine ==
  <<serverVars, personaVars, mcpVars, keyVars, appVars, stdioVars>>

outsideServer ==
  <<engineVars, personaVars, mcpVars, keyVars, appVars, stdioVars>>

outsidePersona ==
  <<engineVars, serverVars, mcpVars, keyVars, appVars, stdioVars>>

outsideMcp ==
  <<engineVars, serverVars, personaVars, keyVars, appVars, stdioVars>>

outsideKey ==
  <<engineVars, serverVars, personaVars, mcpVars, appVars, stdioVars>>

outsideApp ==
  <<engineVars, serverVars, personaVars, mcpVars, stdioVars>>

outsideStdio ==
  <<engineVars, serverVars, personaVars, mcpVars, keyVars, appVars>>

NoRequest == [hasBody |-> FALSE, morse_sequence |-> Unset]

NoResponse ==
  [status |-> 0, error |-> "", partial_decode |-> Undefined,
   reply_morse |-> Undefined, reply_text |-> Undefined,
   timing_array |-> Undefined]

\* an MCP request as JSON.parse gives it: null, a primitive, or an object
\* whose method, params, params.name, params.arguments and
\* params.arguments.message are each present or not
NoArguments == [kind |-> "undefined", message |-> Undefined]

NoParams == [kind |-> "undefined", name |-> "(undefined)", arguments |-> NoArguments]

NoMcpRequest == [kind |-> "none", method |-> "(undefined)", params |-> NoParams]

NoResult == [morse |-> Undefined, text |-> Undefined, timing |-> Undefined]

\* what a call comes to: it returns a value (the tool list, a content, an
\* error object) or it throws
NoMcpResponse ==
  [threw |-> FALSE, kind |-> "none", code |-> 0, message |-> <<>>, result |-> NoResult]

NoTimer == -1

Init ==
  /\ input = Unset
  /\ morseStr = Unset
  /\ origin = "none"
  /\ decoded = Unset
  /\ timing = Unset
  /\ request = NoRequest
  /\ pc = "idle"
  /\ decodedText = Unset
  /\ aiMessage = Unset
  /\ response = NoResponse
  /\ personaMessage = Unset
  /\ personaApi = [kind |-> "none", text |-> <<>>]
  /\ personaReply = Unset
  /\ mcpRequest = NoMcpRequest
  /\ mcpResponse = NoMcpResponse
  /\ isPressed = FALSE
  /\ pressElapsed = 0
  /\ currentSequence = <<>>
  /\ sequenceRef = <<>>
  /\ transmissionStatus = "idle"
  /\ lastInputTimeRef = FALSE
  /\ breakTimer = NoTimer
  /\ statusTimers = <<>>
  /\ disabled = FALSE
  /\ sends = 0
  /\ calls = <<>>
  /\ lastHandler = "none"
  /\ sinceInput = 0
  /\ keyed = <<>>
  /\ lastPress = 0
  /\ isSending = FALSE
  /\ isPlayingResponse = FALSE
  /\ errorMessage = ""
  /\ responseText = ""
  /\ isInitialized = FALSE
  /\ tones = 0
  /\ stdin = <<>>
  /\ consumed = 0
  /\ buffer = <<>>
  /\ stdout = <<>>
  /\ stdioState = "idle"

\* a caller encodes a text: morse = textToMorse(text).  The functions keep
\* no state between calls, so one chain of calls per behaviour covers them.
Encode(t) ==
  /\ origin = "none"
  /\ input' = t
  /\ morseStr' = textToMorse(t)
  /\ origin' = "textToMorse"
  /\ decoded' = Unset
  /\ timing' = Unset
  /\ UNCHANGED outsideEngine

\* a caller holds a Morse value it did not get from textToMorse
Receive(m) ==
  /\ origin = "none"
  /\ input' = Unset
  /\ morseStr' = m
  /\ origin' = "caller"
  /\ decoded' = Unset
  /\ timing' = Unset
  /\ UNCHANGED outsideEngine

\* decoded = morseToText(morse)
Decode ==
  /\ origin # "none"
  /\ morseStr.type # "TypeError"
  /\ decoded = Unset
  /\ decoded' = morseToText(morseStr)
  /\ UNCHANGED <<input, morseStr, origin, timing, outsideEngine>>

\* timing = morseToTiming(morse)
Timing ==
  /\ origin # "none"
  /\ morseStr.type # "TypeError"
  /\ timing = Unset
  /\ timing' = morseToTiming(morseStr)
  /\ UNCHANGED <<input, morseStr, origin, decoded, outsideEngine>>

NextEngine ==
  \/ \E t \in TextInputs \cup NonStrings : Encode(t)
  \/ \E m \in MorseInputs \cup NonStrings : Receive(m)
  \/ Decode
  \/ Timing

SpecEngine == Init /\ [][NextEngine]_vars

----------------------------------------------------------------------------
(* Properties of the engine *)

IsTableChar(c) == <<c>> \in DOMAIN TEXT_TO_MORSE_MAP

IsNonEmpty(tok) == tok # <<>>

Tokens(s) == SplitChars(s, " ")

NonEmptyTokens(s) == SelectSeq(Tokens(s), IsNonEmpty)

Called(v) == v.type # "unset"

\* C1: a text whose uppercased characters are all table keys (the empty
\* text and texts with leading, trailing or consecutive spaces included)
\* is decoded from its own encoding to the text uppercased.
C1_RoundTrip ==
  ( /\ origin = "textToMorse"
    /\ input.type = "string"
    /\ \A i \in 1..Len(UpperChars(input.val)) : IsTableChar(UpperChars(input.val)[i])
    /\ Called(decoded) )
  => /\ decoded.type = "string"
     /\ decoded.val = UpperChars(input.val)

C1_Witness ==
  /\ origin = "textToMorse"
  /\ input = Str(<<"a", " ", " ", "B">>)
  /\ decoded = Str(<<"A", " ", " ", "B">>)

\* C2: morseToText returns a string with exactly one character per
\* non-empty space-separated token, in token order: the table character of
\* a code of the reverse table, one error marker for any other token.
C2_OneCharPerToken ==
  (morseStr.type = "string" /\ Called(decoded))
  => /\ decoded.type = "string"
     /\ LET toks == NonEmptyTokens(morseStr.val)
        IN  /\ Len(decoded.val) = Len(toks)
            /\ \A k \in 1..Len(toks) :
                 k <= Len(decoded.val)
                 => decoded.val[k] =
                      (IF toks[k] \in DOMAIN MORSE_TO_TEXT_MAP
                       THEN MORSE_TO_TEXT_MAP[toks[k]][1]
                       ELSE ERROR_MARKER)

\* C4: the timing of an encoded text alternates by position: entries at
\* even indices (from 0) are signal-on durations (dot, dash or the zero
\* placeholder), entries at odd indices are signal-off gaps.
C4_Alternates ==
  (origin = "textToMorse" /\ timing.type = "array")
  => \A i \in 1..Len(timing.val) :
       IF (i - 1) % 2 = 0
       THEN timing.val[i] \in {DOT_DURATION, DASH_DURATION, 0}
       ELSE timing.val[i] \in {ELEMENT_GAP, CHAR_GAP, WORD_GAP}

HasSymbol(s) == \E i \in 1..Len(s) : s[i] \in {".", "-"}

C6_NoBoundaryGap ==
  (morseStr.type = "string" /\ timing.type = "array" /\ timing.val # <<>>)
  => /\ timing.val[1] \in {DOT_DURATION, DASH_DURATION}
     /\ timing.val[Len(timing.val)] \in {DOT_DURATION, DASH_DURATION}

IsCodeToken(tok) ==
  tok = <<"/">> \/ \A j \in 1..Len(tok) : tok[j] \in {".", "-"}

\* the timing in which the tokens that are neither '/' nor dots and dashes
\* leave nothing
RECURSIVE TimingOfCodeTokens(_, _)
TimingOfCodeTokens(toks, i) ==
  IF i > Len(toks) THEN <<>>
  ELSE (IF IsCodeToken(toks[i]) THEN TokenTiming(toks, i) ELSE <<>>)
       \o TimingOfCodeTokens(toks, i + 1)

\* C7: a token that is neither '/' nor made only of '.' and '-' adds no
\* entry to the timing, and nothing is thrown.
C7_MalformedTokenSilent ==
  ( /\ morseStr.type = "string"
    /\ TrimEnd(TrimStart(morseStr.val)) # <<>>
    /\ Called(timing) )
  => /\ timing.type = "array"
     /\ timing.val = TimingOfCodeTokens(Tokens(morseStr.val), 1)

Code(c) == LiteralEntry(c)[2]

RECURSIVE CodesJoined(_)
CodesJoined(cs) ==
  IF cs = <<>> THEN <<>>
  ELSE IF Len(cs) = 1 THEN Code(cs[1])
  ELSE Code(cs[1]) \o <<" ">> \o CodesJoined(Tail(cs))

\* C8: the encoding of a text is the codes of its table characters, in
\* their order, joined by single spaces; the other characters leave
\* nothing.
C8_OnlyTableChars ==
  (origin = "textToMorse" /\ input.type = "string")
  => /\ morseStr.type = "string"
     /\ morseStr.val = CodesJoined(SelectSeq(UpperChars(input.val), IsTableChar))

C8_Witness ==
  /\ input = Str(<<"a", "#", "B">>)
  /\ morseStr = Str(<<".", "-", " ", "-", ".", ".", ".">>)

\* C9: no call throws, whatever the type of its argument, and a call with
\* a non-string argument returns the empty result.
C9_NeverThrows ==
  /\ origin = "textToMorse" => morseStr.type = "string"
  /\ Called(decoded) => decoded.type = "string"
  /\ Called(timing) => timing.type = "array"
  /\ (origin = "textToMorse" /\ input.type # "string") => morseStr.val = <<>>
  /\ (morseStr.type # "string" /\ decoded.type = "string") => decoded.val = <<>>
  /\ (morseStr.type # "string" /\ timing.type = "array") => timing.val = <<>>

C9_Witness ==
  /\ origin = "caller"
  /\ morseStr = Num(42)
  /\ decoded = Str(<<>>)
  /\ timing = Arr(<<>>)

TablesInverse ==
  /\ Cardinality(DOMAIN MORSE_TO_TEXT_MAP) = Cardinality(DOMAIN TEXT_TO_MORSE_MAP)
  /\ \A c, d \in DOMAIN TEXT_TO_MORSE_MAP :
       TEXT_TO_MORSE_MAP[c] = TEXT_TO_MORSE_MAP[d] => c = d
  /\ \A c \in DOMAIN TEXT_TO_MORSE_MAP :
       /\ TEXT_TO_MORSE_MAP[c] \in DOMAIN MORSE_TO_TEXT_MAP
       /\ MORSE_TO_TEXT_MAP[TEXT_TO_MORSE_MAP[c]] = c
  /\ \A m \in DOMAIN MORSE_TO_TEXT_MAP :
       /\ MORSE_TO_TEXT_MAP[m] \in DOMAIN TEXT_TO_MORSE_MAP
       /\ TEXT_TO_MORSE_MAP[MORSE_TO_TEXT_MAP[m]] = m
  /\ TEXT_TO_MORSE_MAP[<<" ">>] = <<"/">>

\* C11: the reverse table has as many entries as the forward table, the
\* forward codes are distinct, and the tables are mutual inverses (space
\* and '/' map to each other), so a lone space encodes to '/' and back.
C11_TablesInverse ==
  /\ TablesInverse
  /\ (origin = "textToMorse" /\ input = Str(<<" ">>))
       => /\ morseStr = Str(<<"/">>)
          /\ Called(decoded) => decoded = Str(<<" ">>)

C11_Witness ==
  /\ origin = "textToMorse"
  /\ input = Str(<<" ">>)
  /\ morseStr = Str(<<"/">>)
  /\ decoded = Str(<<" ">>)

----------------------------------------------------------------------------
(* operator-persona.js *)

\* the last position of the run of whitespace that contains position i
RunEnd(s, i) ==
  CHOOSE j \in i..Len(s) :
    /\ \A k \in i..j : s[k] \in WhiteSpace
    /\ j = Len(s) \/ s[j + 1] \notin WhiteSpace

\* the pieces of s left when the matches starts[k]..ends[k] are cut out
Pieces(s, starts, ends) ==
  [k \in 1..(Len(starts) + 1) |->
     Str(SubSeq(s, IF k = 1 THEN 1 ELSE ends[k - 1] + 1,
                   IF k = Len(starts) + 1 THEN Len(s) ELSE starts[k] - 1))]

\* s.split(/\s+/): the pieces between the runs of whitespace, the empty
\* pieces before a leading and after a trailing run included
SplitWhitespace(s) ==
  LET RunStart(i) == s[i] \in WhiteSpace /\ (i = 1 \/ s[i - 1] \notin WhiteSpace)
      starts == SelectSeq(Indices(s), RunStart)
  IN  Pieces(s, starts, [k \in 1..Len(starts) |-> RunEnd(s, starts[k])])

STOP == <<"S", "T", "O", "P">>

\* s.replace(/\.\s+/g, ' STOP '): every period that is followed by
\* whitespace is replaced, together with the whole run of whitespace
ReplacePeriodRuns(s) ==
  LET Match(i) == s[i] = "." /\ i < Len(s) /\ s[i + 1] \in WhiteSpace
      starts == SelectSeq(Indices(s), Match)
  IN  join(Pieces(s, starts, [k \in 1..Len(starts) |-> RunEnd(s, starts[k] + 1)]),
           <<" ">> \o STOP \o <<" ">>)

\* s.replace(/\.$/, ' STOP'): a period that ends the string
ReplaceFinalPeriod(s) ==
  IF s # <<>> /\ s[Len(s)] = "."
  THEN SubSeq(s, 1, Len(s) - 1) \o <<" ">> \o STOP
  ELSE s

enforceUppercase(text) ==
  IF typeof(text) # "string" THEN Str(<<>>) ELSE toUpperCase(text)

replacePeriods(text) ==
  IF typeof(text) # "string" THEN Str(<<>>)
  ELSE trim(Str(ReplaceFinalPeriod(ReplacePeriodRuns(text.val))))

applyOperatorPersona(text) ==
  IF typeof(text) # "string" THEN Str(<<>>)
  ELSE replacePeriods(enforceUppercase(text))

MAX_WORDS == 20

\* "Ensure brevity (truncate if needed)": a response of more than 20
\* pieces is cut to its first 20 pieces, and ' STOP' is appended
EnsureBrevity(aiResponse) ==
  LET words == SplitWhitespace(aiResponse.val)
  IN  IF Len(words) > MAX_WORDS
      THEN Str(join(SubSeq(words, 1, MAX_WORDS), <<" ">>) \o <<" ">> \o STOP)
      ELSE aiResponse

RECEIVED_PREFIX ==
  <<"R", "E", "C", "E", "I", "V", "E", "D", " ", "Y", "O", "U", "R", " ",
    "M", "E", "S", "S", "A", "G", "E", " ", "S", "T", "O", "P", " ">>

\* the echo mode: `RECEIVED YOUR MESSAGE STOP ${userMessage} STOP`, given
\* the persona and cut for brevity
EchoResponse(userMessage) ==
  EnsureBrevity(applyOperatorPersona(
    Str(RECEIVED_PREFIX \o userMessage.val \o <<" ">> \o STOP)))

\* what the call of the Gemini API comes to: no API key is configured, the
\* call fails (network error, error status, unexpected format), or the
\* first candidate carries a text
NoApiKey == [kind |-> "no key", text |-> <<>>]

ApiError == [kind |-> "error", text |-> <<>>]

ApiText(t) == [kind |-> "text", text |-> t]

\* the reply for a valid message: the API's text trimmed, given the
\* persona and cut for brevity, or the echo when there is no such text
OperatorReply(userMessage, api) ==
  IF api.kind = "text"
  THEN EnsureBrevity(applyOperatorPersona(trim(Str(api.text))))
  ELSE EchoResponse(userMessage)

----------------------------------------------------------------------------
(* POST /api/send-telegram *)

MAX_SEQUENCE_LENGTH == 500

\* the string literal of the error-marker test: the three code units
\* U+00EF U+00BF U+00BD
MARKER_LITERAL == <<"U+00EF", "U+00BF", "U+00BD">>

FALLBACK_REPLY ==
  <<"O", "P", "E", "R", "A", "T", "O", "R", " ", "U", "N", "A", "V", "A", "I", "L", "A", "B", "L", "E", " ",
    "S", "T", "O", "P", " ", "T", "R", "Y", " ", "A", "G", "A", "I", "N", " ", "S", "T", "O", "P">>

\* texts of the API's first candidate: telegrams, one of them with a
\* character outside the table
GeneratorReplies ==
  { <<"O", "K", " ", "S", "T", "O", "P">>,
    <<"R", "E", "C", "'", "D", " ", "S", "T", "O", "P">>,
    <<"#", "1", " ", "S", "T", "O", "P">> }

Thrown == [type |-> "Error", val |-> <<>>]

\* invokeOperatorAI: throws on a message that is not a string or is blank,
\* and otherwise resolves to the reply made from the API's text or to the
\* echo
InvokeOperatorAI(userMessage, api) ==
  IF typeof(userMessage) # "string" \/ trim(userMessage).val = <<>>
  THEN Thrown
  ELSE OperatorReply(userMessage, api)

\* the outcomes of the API call behind the endpoint
ApiOutcomes ==
  {NoApiKey, ApiError} \cup {ApiText(r) : r \in GeneratorReplies}

ErrorResponse(code, msg) ==
  [NoResponse EXCEPT !.status = code, !.error = msg]

\* sequences of MAX_SEQUENCE_LENGTH and MAX_SEQUENCE_LENGTH + 1 dots (the
\* two sides of the length limit of the endpoint)
Dots(n) == Str([i \in 1..n |-> "."])

LongInputs == {Dots(MAX_SEQUENCE_LENGTH), Dots(MAX_SEQUENCE_LENGTH + 1)}

\* Morse sequences a client sends
MaxRequestPieces == 3

RequestInputs == {Str(Flatten(p)) : p \in SeqsUpTo(MorsePieces, MaxRequestPieces)}

\* request bodies: no body, or an object whose morse_sequence is missing
\* (undefined) or any JSON value
RequestBodies ==
  {NoRequest}
    \cup {[hasBody |-> TRUE, morse_sequence |-> m] :
            m \in RequestInputs \cup LongInputs \cup NonStrings \cup {Undefined}}

\* line 58: the length test
TooLong_AtLimit(morse_sequence) ==
  Len(morse_sequence.val) >= MAX_SEQUENCE_LENGTH

TooLong(morse_sequence) ==
  Len(morse_sequence.val) > MAX_SEQUENCE_LENGTH

\* lines 32-78: validation, decoding, the error-marker test and the call
\* of the response generator
HandleRequest(body) ==
  /\ pc = "idle"
  /\ request' = body
  /\ LET morse_sequence == body.morse_sequence
     IN  IF ~body.hasBody
         THEN /\ response' = ErrorResponse(400, "NO DATA RECEIVED")
              /\ pc' = "done"
              /\ UNCHANGED <<decodedText, aiMessage>>
         ELSE IF ~Truthy(morse_sequence)
         THEN /\ response' = ErrorResponse(400, "MORSE SEQUENCE REQUIRED")
              /\ pc' = "done"
              /\ UNCHANGED <<decodedText, aiMessage>>
         ELSE IF typeof(morse_sequence) # "string"
         THEN /\ response' = ErrorResponse(400, "MORSE SEQUENCE MUST BE TEXT")
              /\ pc' = "done"
              /\ UNCHANGED <<decodedText, aiMessage>>
         ELSE IF TooLong(morse_sequence)
         THEN /\ response' = ErrorResponse(400, "TRANSMISSION TOO LONG")
              /\ pc' = "done"
              /\ UNCHANGED <<decodedText, aiMessage>>
         ELSE /\ decodedText' = morseToText(morse_sequence)
              /\ IF decodedText'.type = "TypeError"
                 THEN /\ response' = ErrorResponse(500, "TELEGRAPH LINE FAILURE")
                      /\ pc' = "done"
                      /\ UNCHANGED aiMessage
                 ELSE IF includes(decodedText'.val, MARKER_LITERAL)
                 THEN /\ response' = [ErrorResponse(400, "INVALID MORSE SEQUENCE")
                                        EXCEPT !.partial_decode = decodedText']
                      /\ pc' = "done"
                      /\ UNCHANGED aiMessage
                 ELSE /\ aiMessage' = decodedText'
                      /\ pc' = "awaitingAI"
                      /\ UNCHANGED response
  /\ UNCHANGED outsideServer

\* lines 78-96: the generator settles; its failure is replaced by the
\* fallback reply, and the reply is encoded and sent
GeneratorSettles ==
  /\ pc = "awaitingAI"
  /\ \E api \in ApiOutcomes :
       LET outcome == InvokeOperatorAI(aiMessage, api)
           replyText == IF outcome = Thrown THEN Str(FALLBACK_REPLY) ELSE outcome
           replyMorse == textToMorse(replyText)
           timingArray == morseToTiming(replyMorse)
       IN  response' =
             IF replyMorse.type = "TypeError" \/ timingArray.type = "TypeError"
             THEN ErrorResponse(500, "TELEGRAPH LINE FAILURE")
             ELSE [NoResponse EXCEPT !.status = 200,
                                     !.reply_morse = replyMorse,
                                     !.reply_text = replyText,
                                     !.timing_array = timingArray]
  /\ pc' = "done"
  /\ UNCHANGED <<request, decodedText, aiMessage, outsideServer>>

NextServer ==
  \/ \E body \in RequestBodies : HandleRequest(body)
  \/ GeneratorSettles

SpecServer == Init /\ [][NextServer]_vars

HasUnknownToken(s) ==
  \E k \in 1..Len(NonEmptyTokens(s)) :
    NonEmptyTokens(s)[k] \notin DOMAIN MORSE_TO_TEXT_MAP

\* C3: a request whose morse_sequence is a string of at most 500
\* characters with a token outside the reverse table is answered 400, and
\* its decoded text is never given to the response generator.
C3_UnknownTokenRejected ==
  ( /\ request.hasBody
    /\ request.morse_sequence.type = "string"
    /\ Len(request.morse_sequence.val) <= MAX_SEQUENCE_LENGTH
    /\ HasUnknownToken(request.morse_sequence.val) )
  => /\ aiMessage = Unset
     /\ pc = "done" => response.status = 400

\* C12: a request whose morse_sequence is missing, not a string or longer
\* than 500 characters is answered with a 4xx status, nothing is decoded
\* and the response generator is not invoked; a string of exactly 500
\* characters passes the length test and is decoded.
C12_ValidationRejects ==
  pc # "idle" =>
    /\ ( \/ ~request.hasBody
         \/ typeof(request.morse_sequence) # "string"
         \/ Len(request.morse_sequence.val) > 500 )
       => /\ pc = "done"
          /\ response.status \in 400..499
          /\ decodedText = Unset
          /\ aiMessage = Unset
    /\ ( /\ request.hasBody
         /\ typeof(request.morse_sequence) = "string"
         /\ Len(request.morse_sequence.val) = 500 )
       => /\ response.error # "TRANSMISSION TOO LONG"
          /\ decodedText # Unset

C12_Witness ==
  /\ pc = "done"
  /\ request.hasBody
  /\ request.morse_sequence = Dots(501)
  /\ response.status = 400
  /\ response.error = "TRANSMISSION TOO LONG"

\* C13: on every 200 response the three representations agree:
\* reply_morse is the encoding of reply_text, reply_text is the decoding of
\* reply_morse, and timing_array is the timing of reply_morse.
C13_RepresentationsAgree ==
  (pc = "done" /\ response.status = 200)
  => /\ response.reply_morse = textToMorse(response.reply_text)
     /\ morseToText(response.reply_morse) = response.reply_text
     /\ response.timing_array = morseToTiming(response.reply_morse)

----------------------------------------------------------------------------
(* invokeOperatorAI called on its own *)

\* countWords: the non-empty pieces of the trimmed text
countWords(text) ==
  IF typeof(text) # "string" THEN 0
  ELSE LET words == SplitWhitespace(trim(text).val)
           NonEmpty(i) == words[i].val # <<>>
       IN  Len(SelectSeq(Indices(words), NonEmpty))

MaxMessageLen == 3

MessageAlphabet == {"a", ".", " ", "\n"}

\* a message of n one-letter words
MessageOfWords(n) ==
  Str([i \in 1..(2 * n - 1) |-> IF i % 2 = 1 THEN Lower[(i + 1) \div 2] ELSE " "])

LongMessageWords == 16

\* user messages: short texts with periods and whitespace in every
\* position, values that are not strings, and one long message
UserMessages ==
  {Str(t) : t \in SeqsUpTo(MessageAlphabet, MaxMessageLen)}
    \cup NonStrings
    \cup {MessageOfWords(LongMessageWords)}

\* texts of the API: the telegrams of GeneratorReplies, a lowercase text
\* with periods, an empty text and a text of more than 20 words
ApiTexts ==
  GeneratorReplies
    \cup { <<" ", "o", "k", ".", " ", "g", "o", ".", "\n">>, <<>>,
           MessageOfWords(MAX_WORDS + 2).val }

InvokePersona(userMessage, api) ==
  /\ personaReply = Unset
  /\ personaMessage' = userMessage
  /\ personaApi' = api
  /\ personaReply' = InvokeOperatorAI(userMessage, api)
  /\ UNCHANGED outsidePersona

NextPersona ==
  \E userMessage \in UserMessages :
    \E api \in {NoApiKey, ApiError} \cup {ApiText(t) : t \in ApiTexts} :
      InvokePersona(userMessage, api)

SpecPersona == Init /\ [][NextPersona]_vars

\* C15: every string invokeOperatorAI returns has at most 20
\* whitespace-separated words.
C15_AtMostTwentyWords ==
  personaReply.type = "string" => countWords(personaReply) <= 20

----------------------------------------------------------------------------
(* mcp-telegraph-tool.js *)

Throw(name, message) ==
  [NoMcpResponse EXCEPT !.threw = TRUE, !.kind = name, !.message = message]

\* lines 38-54: the body of the try block of transmitTelegram
TransmitBody(message) ==
  IF typeof(message) # "string"
  THEN Throw("Error", <<"Message must be a string">>)
  ELSE LET morse == textToMorse(message)
           timing_ == morseToTiming(morse)
           text == toUpperCase(message)
       IN  IF morse.type = "TypeError" \/ timing_.type = "TypeError"
              \/ text.type = "TypeError"
           THEN Throw("TypeError", <<"is not a function">>)
           ELSE [NoMcpResponse EXCEPT
                   !.kind = "result",
                   !.result = [morse |-> morse, text |-> text, timing |-> timing_]]

\* lines 36-58: whatever the body throws is thrown again as
\* 'Telegraph transmission failed: ...'
transmitTelegram(message) ==
  LET outcome == TransmitBody(message)
  IN  IF outcome.threw
      THEN Throw("Error", <<"Telegraph transmission failed: ">> \o outcome.message)
      ELSE outcome

\* lines 67-91: the body of the try block of handleRequest.  Reading a
\* property of null or undefined throws a TypeError; reading one of a
\* primitive gives undefined
HandleBody(req) ==
  IF req.kind \in {"null", "undefined"}
  THEN Throw("TypeError", <<"Cannot read properties of ", req.kind>>)
  ELSE IF req.method = "tools/list"
  THEN [NoMcpResponse EXCEPT !.kind = "tools"]
  ELSE IF req.method = "tools/call"
  THEN IF req.params.kind \in {"null", "undefined"}
       THEN Throw("TypeError", <<"Cannot destructure ", req.params.kind>>)
       ELSE IF req.params.name = "transmit_telegram"
       THEN IF req.params.arguments.kind \in {"null", "undefined"}
            THEN Throw("TypeError",
                       <<"Cannot read properties of ", req.params.arguments.kind>>)
            ELSE LET result == transmitTelegram(req.params.arguments.message)
                 IN  IF result.threw THEN result
                     ELSE [result EXCEPT !.kind = "content"]
       ELSE Throw("Error", <<"Unknown tool: ", req.params.name>>)
  ELSE Throw("Error", <<"Unknown method: ", req.method>>)

INTERNAL_ERROR == -32603

\* handleRequest with the catch block of lines 92-99 left out
handleRequest_NoCatch(req) ==
  HandleBody(req)

\* lines 65-100: whatever the body throws is returned as an error object
handleRequest(req) ==
  LET outcome == HandleBody(req)
  IN  IF outcome.threw
      THEN [NoMcpResponse EXCEPT !.kind = "error", !.code = INTERNAL_ERROR,
                                 !.message = outcome.message]
      ELSE outcome

\* the arguments of a call: absent, null, a primitive (its message is
\* undefined), or an object with or without a message
McpArguments ==
  {NoArguments, [kind |-> "null", message |-> Undefined],
   [kind |-> "primitive", message |-> Undefined]}
    \cup {[kind |-> "object", message |-> m] : m \in UserMessages \cup {Undefined}}

McpParams ==
  {NoParams, [kind |-> "null", name |-> "(undefined)", arguments |-> NoArguments]}
    \cup {[kind |-> "object", name |-> n, arguments |-> a] :
            n \in {"transmit_telegram", "receive_telegram", "(undefined)"},
            a \in McpArguments}

McpRequests ==
  {[kind |-> k, method |-> "(undefined)", params |-> NoParams] :
     k \in {"null", "undefined", "primitive"}}
    \cup {[kind |-> "object", method |-> m, params |-> p] :
            m \in {"tools/list", "tools/call", "resources/list", "(undefined)"},
            p \in McpParams}

\* a client calls handleRequest
HandleMcpRequest(req) ==
  /\ mcpRequest = NoMcpRequest
  /\ mcpRequest' = req
  /\ mcpResponse' = handleRequest(req)
  /\ UNCHANGED outsideMcp

NextMcp == \E req \in McpRequests : HandleMcpRequest(req)

SpecMcp == Init /\ [][NextMcp]_vars

\* a call of transmit_telegram whose message argument is not a string
NonStringCall(req) ==
  /\ req.kind = "object"
  /\ req.method = "tools/call"
  /\ req.params.kind = "object"
  /\ req.params.name = "transmit_telegram"
  /\ typeof(req.params.arguments.message) # "string"

\* C14: handleRequest never throws: it returns the tool list, a content or
\* an error object with a code and a message; a call of transmit_telegram
\* whose message is not a string gets the error object, never a result.
C14_NeverThrows ==
  mcpRequest # NoMcpRequest =>
    /\ ~mcpResponse.threw
    /\ mcpResponse.kind \in {"tools", "content", "error"}
    /\ mcpResponse.kind = "error" =>
         /\ mcpResponse.code = -32603
         /\ mcpResponse.message # <<>>
         /\ mcpResponse.result = NoResult
    /\ mcpResponse.kind = "content" =>
         /\ mcpResponse.result.morse.type = "string"
         /\ mcpResponse.result.timing.type = "array"
    /\ NonStringCall(mcpRequest) => mcpResponse.kind = "error"

C14_Witness ==
  /\ NonStringCall(mcpRequest)
  /\ mcpRequest.params.arguments.message = Num(42)
  /\ mcpResponse.kind = "error"
  /\ mcpResponse.message =
       <<"Telegraph transmission failed: ", "Message must be a string">>

----------------------------------------------------------------------------
(* TelegraphKey.jsx *)

DASH_THRESHOLD == 200

CHARACTER_BREAK == 800

SUCCESS_DISPLAY == 500

ERROR_DISPLAY == 2000

MaxSymbols == 2

MaxSends == 2

\* lines 149-174, the character-break effect, run after a render in which
\* currentSequence or onCharacterBreak changed: the cleanup has cleared the
\* pending timeout, and a new one is set when a symbol has been keyed
BreakEffect(sequence, lastInputTime) ==
  IF lastInputTime /\ sequence # <<>> THEN CHARACTER_BREAK ELSE NoTimer

\* setTimeout(..., delay) added to the pending status timeouts, the one
\* that is due first in front
AddTimer(timers, delay) ==
  LET Sooner(i) == timers[i] <= delay
      k == Len(SelectSeq(Indices(timers), Sooner))
  IN  SubSeq(timers, 1, k) \o <<delay>> \o SubSeq(timers, k + 1, Len(timers))

RemoveAt(seq, i) == SubSeq(seq, 1, i - 1) \o SubSeq(seq, i + 1, Len(seq))

\* lines 176-192
handleMouseDown ==
  /\ ~isPressed
  /\ ~disabled
  /\ isPressed' = TRUE
  /\ pressElapsed' = 0
  /\ lastHandler' = "handleMouseDown"
  /\ UNCHANGED <<currentSequence, sequenceRef, transmissionStatus,
                 lastInputTimeRef, breakTimer, statusTimers, disabled, sends,
                 calls, observed>>

\* handleMouseUp with a press of exactly 200 ms taken for a dot
handleMouseUp_DashAbove ==
  /\ isPressed
  /\ Len(sequenceRef) < MaxSymbols
  /\ LET symbol == IF pressElapsed <= DASH_THRESHOLD THEN "." ELSE "-"
         newSequence == Append(sequenceRef, symbol)
     IN  /\ sequenceRef' = newSequence
         /\ currentSequence' = newSequence
         /\ breakTimer' = BreakEffect(newSequence, TRUE)
         /\ keyed' = Append(keyed, symbol)
  /\ sinceInput' = 0
  /\ lastPress' = pressElapsed
  /\ isPressed' = FALSE
  /\ pressElapsed' = 0
  /\ lastInputTimeRef' = TRUE
  /\ lastHandler' = "handleMouseUp"
  /\ UNCHANGED <<transmissionStatus, statusTimers, disabled, sends, calls>>

\* lines 194-227, and the character-break effect that follows the change
\* of currentSequence
handleMouseUp ==
  /\ isPressed
  /\ Len(sequenceRef) < MaxSymbols
  /\ LET symbol == IF pressElapsed < DASH_THRESHOLD THEN "." ELSE "-"
         newSequence == Append(sequenceRef, symbol)
     IN  /\ sequenceRef' = newSequence
         /\ currentSequence' = newSequence
         /\ breakTimer' = BreakEffect(newSequence, TRUE)
         /\ keyed' = Append(keyed, symbol)
  /\ sinceInput' = 0
  /\ lastPress' = pressElapsed
  /\ isPressed' = FALSE
  /\ pressElapsed' = 0
  /\ lastInputTimeRef' = TRUE
  /\ lastHandler' = "handleMouseUp"
  /\ UNCHANGED <<transmissionStatus, statusTimers, disabled, sends, calls>>

\* lines 157-166: the character-break timeout fires; onCharacterBreak is
\* called and the sequence is cleared
BreakTimeout ==
  /\ breakTimer = 0
  /\ breakTimer' = NoTimer
  /\ IF sequenceRef # <<>>
     THEN /\ sequenceRef' = <<>>
          /\ currentSequence' = <<>>
          /\ keyed' = <<>>
          /\ sinceInput' = 0
          /\ UNCHANGED lastPress
     ELSE UNCHANGED <<sequenceRef, currentSequence, observed>>
  /\ lastHandler' = "characterBreak"
  /\ UNCHANGED <<isPressed, pressElapsed, transmissionStatus, lastInputTimeRef,
                 statusTimers, disabled, sends, calls>>

\* lines 262-264 and 270-272: a status timeout fires
StatusTimeout ==
  /\ statusTimers # <<>>
  /\ Head(statusTimers) = 0
  /\ statusTimers' = Tail(statusTimers)
  /\ transmissionStatus' = "idle"
  /\ lastHandler' = "statusTimeout"
  /\ UNCHANGED <<isPressed, pressElapsed, currentSequence, sequenceRef,
                 lastInputTimeRef, breakTimer, disabled, sends, calls,
                 observed>>

\* line 350: the send button is enabled
SendEnabled ==
  ~(currentSequence = <<>> \/ disabled \/ transmissionStatus = "sending")

\* lines 358-362: the clear button is shown and enabled
ClearEnabled ==
  currentSequence # <<>> /\ ~(disabled \/ transmissionStatus = "sending")

\* lines 236-243: a click on Send, up to the await
SendStarts ==
  /\ SendEnabled
  /\ sequenceRef # <<>>
  /\ sends < MaxSends
  /\ sends' = sends + 1
  /\ transmissionStatus' = "sending"
  /\ calls' = Append(calls, [sequence |-> sequenceRef, state |-> "pending"])
  /\ lastHandler' = "handleSendTransmission"
  /\ UNCHANGED <<isPressed, pressElapsed, currentSequence, sequenceRef,
                 lastInputTimeRef, statusTimers, observed>>

\* lines 245-264: the promise of call i has resolved
SendSucceeded(i) ==
  /\ calls' = RemoveAt(calls, i)
  /\ sequenceRef' = <<>>
  /\ currentSequence' = <<>>
  /\ lastInputTimeRef' = FALSE
  /\ breakTimer' = NoTimer
  /\ transmissionStatus' = "success"
  /\ statusTimers' = AddTimer(statusTimers, SUCCESS_DISPLAY)
  /\ lastHandler' = "sendSucceeded"
  /\ keyed' = <<>>
  /\ sinceInput' = 0
  /\ UNCHANGED <<lastPress, isPressed, pressElapsed, sends>>

\* lines 265-273: the promise of call i has rejected
SendFailed(i) ==
  /\ calls' = RemoveAt(calls, i)
  /\ transmissionStatus' = "error"
  /\ statusTimers' = AddTimer(statusTimers, ERROR_DISPLAY)
  /\ lastHandler' = "sendFailed"
  /\ UNCHANGED <<isPressed, pressElapsed, currentSequence, sequenceRef,
                 lastInputTimeRef, breakTimer, sends, observed>>

\* handleClear with the ref left as it is
handleClear_StateOnly ==
  /\ ClearEnabled
  /\ currentSequence' = <<>>
  /\ lastInputTimeRef' = FALSE
  /\ breakTimer' = NoTimer
  /\ lastHandler' = "handleClear"
  /\ keyed' = <<>>
  /\ sinceInput' = 0
  /\ UNCHANGED <<lastPress, isPressed, pressElapsed, sequenceRef,
                 transmissionStatus, statusTimers, disabled, sends, calls>>

\* lines 277-286
handleClear ==
  /\ ClearEnabled
  /\ sequenceRef' = <<>>
  /\ currentSequence' = <<>>
  /\ lastInputTimeRef' = FALSE
  /\ breakTimer' = NoTimer
  /\ lastHandler' = "handleClear"
  /\ keyed' = <<>>
  /\ sinceInput' = 0
  /\ UNCHANGED <<lastPress, isPressed, pressElapsed, transmissionStatus,
                 statusTimers, disabled, sends, calls>>

\* the times from now to the moments at which something is due: a
\* pending timeout expires, or the press in progress becomes a dash
Deadlines ==
  (IF breakTimer = NoTimer THEN {} ELSE {breakTimer})
    \cup {statusTimers[i] : i \in 1..Len(statusTimers)}
    \cup (IF isPressed /\ pressElapsed < DASH_THRESHOLD
          THEN {DASH_THRESHOLD - pressElapsed}
          ELSE {})

\* time passes until the next of these moments
Advance(d) ==
  /\ d > 0
  /\ \A e \in Deadlines : d <= e
  /\ pressElapsed' =
       IF ~isPressed THEN pressElapsed
       ELSE IF pressElapsed + d > DASH_THRESHOLD THEN DASH_THRESHOLD
       ELSE pressElapsed + d
  /\ breakTimer' = IF breakTimer = NoTimer THEN NoTimer ELSE breakTimer - d
  /\ statusTimers' = [i \in 1..Len(statusTimers) |-> statusTimers[i] - d]
  /\ sinceInput' =
       IF keyed = <<>> THEN 0
       ELSE IF sinceInput + d > CHARACTER_BREAK THEN CHARACTER_BREAK + 1
       ELSE sinceInput + d
  /\ UNCHANGED <<isPressed, currentSequence, sequenceRef, transmissionStatus,
                 lastInputTimeRef, disabled, sends, calls, lastHandler, keyed,
                 lastPress>>

----------------------------------------------------------------------------
(* TelegraphKey under a parent whose callbacks are mocks *)

MouseDown == handleMouseDown /\ UNCHANGED outsideKey

MouseUp == handleMouseUp /\ UNCHANGED outsideKey

BreakTimerFires == BreakTimeout /\ UNCHANGED outsideKey

StatusTimerFires == StatusTimeout /\ UNCHANGED outsideKey

ClickSend == SendStarts /\ UNCHANGED <<breakTimer, disabled, outsideKey>>

\* the promise the mock returned resolves
TransmissionResolves(i) == SendSucceeded(i) /\ UNCHANGED <<disabled, outsideKey>>

\* the promise the mock returned rejects
TransmissionRejects(i) == SendFailed(i) /\ UNCHANGED <<disabled, outsideKey>>

ClickClear == handleClear /\ UNCHANGED outsideKey

Tick == (\E d \in Deadlines : Advance(d)) /\ UNCHANGED outsideKey

\* the parent renders the component again, with the disabled prop d and
\* with the same callbacks or with new ones
ParentRenders(d, newCallbacks) ==
  /\ d # disabled \/ newCallbacks
  /\ disabled' = d
  /\ breakTimer' = IF newCallbacks
                   THEN BreakEffect(currentSequence, lastInputTimeRef)
                   ELSE breakTimer
  /\ UNCHANGED <<isPressed, pressElapsed, currentSequence, sequenceRef,
                 transmissionStatus, lastInputTimeRef, statusTimers, sends,
                 calls, lastHandler, observed, outsideKey>>

NextKey ==
  \/ MouseDown
  \/ MouseUp
  \/ BreakTimerFires
  \/ StatusTimerFires
  \/ ClickSend
  \/ \E i \in DOMAIN calls : TransmissionResolves(i)
  \/ \E i \in DOMAIN calls : TransmissionRejects(i)
  \/ ClickClear
  \/ Tick
  \/ \E d \in BOOLEAN, newCallbacks \in BOOLEAN : ParentRenders(d, newCallbacks)

SpecKey == Init /\ [][NextKey]_vars

IsPrefix(p, q) == Len(p) <= Len(q) /\ SubSeq(q, 1, Len(p)) = p

\* C16: when the promise of onTransmissionComplete rejects, the buffer
\* still holds the sequence that was passed (followed by whatever was keyed
\* during the transmission), however long the transmission took.
C16_BufferKeptOnFailure ==
  [][\A i \in DOMAIN calls :
       TransmissionRejects(i)
         => /\ IsPrefix(calls[i].sequence, sequenceRef')
            /\ IsPrefix(calls[i].sequence, currentSequence')]_vars

\* C18: while a promise of onTransmissionComplete has not settled, the
\* status is 'sending', the send and clear buttons are disabled, and no
\* second transmission is in progress.
C18_SendingUntilSettled ==
  calls # <<>> =>
    /\ transmissionStatus = "sending"
    /\ ~SendEnabled
    /\ ~ClearEnabled
    /\ Len(calls) = 1

\* C19: symbols leave the buffer only in a successful send or a click on
\* Clear: no timeout, re-render or prop update shortens the buffer.
C19_OnlyExplicitClears ==
  [][(Len(sequenceRef') < Len(sequenceRef) \/ Len(currentSequence') < Len(currentSequence))
       => (ClickClear \/ \E i \in DOMAIN calls : TransmissionResolves(i))]_vars

\* C20: a click on Clear leaves the buffer empty, with no character-break
\* timeout pending, and calls onTransmissionComplete neither then nor
\* later: the callback is only ever called by a click on Send with a
\* non-empty buffer.
C20_ClearDoesNotSend ==
  [][/\ ClickClear
        => /\ sequenceRef # <<>>
           /\ sequenceRef' = <<>>
           /\ currentSequence' = <<>>
           /\ breakTimer' = NoTimer
           /\ sends' = sends
           /\ calls' = calls
     /\ (sends' # sends \/ Len(calls') > Len(calls))
        => (ClickSend /\ sequenceRef # <<>>)]_vars

C20_Witness ==
  /\ lastHandler = "handleClear"
  /\ sequenceRef = <<>>
  /\ currentSequence = <<>>
  /\ breakTimer = NoTimer
  /\ sends = 0

\* C21: the wait for a character break runs from the last symbol keyed:
\* while keyed symbols wait, the timeout is due 800 ms after the last of
\* them, and when it fires onCharacterBreak gets exactly the symbols keyed
\* since the previous break, send or clear, 800 ms after the last one.
C21_BreakAfter800 ==
  /\ [](keyed # <<>> => breakTimer = CHARACTER_BREAK - sinceInput)
  /\ [][(BreakTimerFires /\ sequenceRef # <<>>)
          => (sinceInput = CHARACTER_BREAK /\ sequenceRef = keyed)]_vars

----------------------------------------------------------------------------
(* TelegraphKey keyed by a user who may release the key at any of the
   moments that matter to the classification of a press *)

\* the last moment at which the press in progress is still a dot
PressMoments ==
  IF isPressed /\ pressElapsed < DASH_THRESHOLD - 1
  THEN {DASH_THRESHOLD - 1 - pressElapsed}
  ELSE {}

KeyingTick ==
  (\E d \in Deadlines \cup PressMoments : Advance(d)) /\ UNCHANGED outsideKey

NextKeying ==
  \/ MouseDown
  \/ MouseUp
  \/ BreakTimerFires
  \/ ClickClear
  \/ KeyingTick
  \/ \E d \in BOOLEAN, newCallbacks \in BOOLEAN : ParentRenders(d, newCallbacks)

SpecKeying == Init /\ [][NextKeying]_vars

\* C22: every completed key press appends exactly one symbol to the
\* buffer, '.' if it lasted less than 200 ms and '-' if it lasted 200 ms or
\* more.
C22_DotBelow200 ==
  [][MouseUp =>
       \E symbol \in {".", "-"} :
         /\ (symbol = ".") <=> (pressElapsed < 200)
         /\ sequenceRef' = Append(sequenceRef, symbol)
         /\ currentSequence' = Append(currentSequence, symbol)]_vars

C22_Witness ==
  /\ lastHandler = "handleMouseUp"
  /\ lastPress = 199
  /\ sequenceRef = <<"-", ".">>
  /\ currentSequence = sequenceRef

----------------------------------------------------------------------------
(* TelegraphKey in the App: onTransmissionComplete is
   App.handleTransmissionComplete and disabled is isSending ||
   isPlayingResponse.  Every render of App passes new callbacks, so the
   character-break effect runs again after it. *)

AppMouseDown == handleMouseDown /\ UNCHANGED <<appVars, outsideApp>>

\* handleMouseUp, and handleDotDash in the App
AppMouseUp == handleMouseUp /\ UNCHANGED <<appVars, outsideApp>>

\* the character-break timeout, and handleCharacterBreak in the App
AppBreakTimerFires == BreakTimeout /\ UNCHANGED <<appVars, outsideApp>>

AppStatusTimerFires == StatusTimeout /\ UNCHANGED <<appVars, outsideApp>>

AppClickClear == handleClear /\ UNCHANGED <<appVars, outsideApp>>

AppTick == (\E d \in Deadlines : Advance(d)) /\ UNCHANGED <<appVars, outsideApp>>

\* the disabled prop taken from isPlayingResponse alone
AppRenders_PlaybackOnly ==
  /\ disabled' = isPlayingResponse'
  /\ breakTimer' = BreakEffect(currentSequence, lastInputTimeRef)

\* what the render of App after a change of its state does to the key
AppRenders ==
  /\ disabled' = (isSending' \/ isPlayingResponse')
  /\ breakTimer' = BreakEffect(currentSequence, lastInputTimeRef)

\* a click on Send: handleSendTransmission up to its await, and
\* handleTransmissionComplete (part_011:57-93) up to the await of fetch
AppClickSend ==
  /\ SendStarts
  /\ errorMessage' = ""
  /\ isSending' = TRUE
  /\ UNCHANGED <<isPlayingResponse, responseText, isInitialized, tones,
                 outsideApp>>
  /\ AppRenders

\* the messages of a network error and of an answer that is not 2xx
FailureKinds ==
  {"TELEGRAPH LINE DOWN STOP CHECK CONNECTION STOP",
   "TELEGRAPH LINE FAILURE STOP"}

\* the backend request of call i fails, with a network error or with a
\* status that is not 2xx: the catch block of part_011:117-132 reports
\* the error, isSending is reset, handleTransmissionComplete returns, and
\* handleSendTransmission goes on after its await
BackendFails(i, kind) ==
  /\ calls[i].state = "pending"
  /\ errorMessage' = kind
  /\ responseText' = kind
  /\ isSending' = FALSE
  /\ UNCHANGED <<isPlayingResponse, isInitialized, tones, outsideApp>>
  /\ SendSucceeded(i)
  /\ disabled' = (isSending' \/ isPlayingResponse')

AUDIO_UNAVAILABLE == "AUDIO UNAVAILABLE STOP VISUAL MODE ONLY STOP"

PLAYBACK_ERROR == "PLAYBACK ERROR STOP DISPLAYING TEXT STOP"

\* the backend answers call i with 200 and playResponse (part_011:144-184)
\* shows the text at once: there is no timing array (audio = FALSE), or
\* AudioEngine.initialize() fails
BackendRepliesSilent(i, audio) ==
  /\ calls[i].state = "pending"
  /\ audio => ~isInitialized
  /\ errorMessage' = IF audio THEN AUDIO_UNAVAILABLE ELSE errorMessage
  /\ responseText' = "reply_text"
  /\ isPlayingResponse' = FALSE
  /\ isSending' = FALSE
  /\ UNCHANGED <<isInitialized, tones, outsideApp>>
  /\ SendSucceeded(i)
  /\ disabled' = (isSending' \/ isPlayingResponse')

\* the number of tones in the timing array of a reply
MaxTones == 2

\* part_010:145-151: the response text DisplayManager shows
DisplayedResponse ==
  IF ~isPlayingResponse /\ responseText # "" THEN responseText ELSE ""

\* playResponse showing the text before it awaits the playback
BackendRepliesPlaying_TextFirst(i) ==
  /\ calls[i].state = "pending"
  /\ calls' = [calls EXCEPT ![i].state = "playing"]
  /\ isInitialized' = TRUE
  /\ \E n \in 1..MaxTones : tones' = n
  /\ isPlayingResponse' = FALSE
  /\ responseText' = "reply_text"
  /\ UNCHANGED <<isPressed, pressElapsed, currentSequence, sequenceRef,
                 transmissionStatus, lastInputTimeRef, statusTimers, sends,
                 lastHandler, observed, isSending, errorMessage, outsideApp>>
  /\ AppRenders

\* the backend answers call i with 200 and the playback starts
BackendRepliesPlaying(i) ==
  /\ calls[i].state = "pending"
  /\ calls' = [calls EXCEPT ![i].state = "playing"]
  /\ isInitialized' = TRUE
  /\ \E n \in 1..MaxTones : tones' = n
  /\ isPlayingResponse' = TRUE
  /\ responseText' = ""
  /\ UNCHANGED <<isPressed, pressElapsed, currentSequence, sequenceRef,
                 transmissionStatus, lastInputTimeRef, statusTimers, sends,
                 lastHandler, observed, isSending, errorMessage, outsideApp>>
  /\ AppRenders

\* the playback of call i ends, after the last scheduled tone (failed =
\* FALSE), or scheduling the tones throws: the text is shown,
\* handleTransmissionComplete returns, and handleSendTransmission goes on
PlaybackSettles(i, failed) ==
  /\ calls[i].state \in {"playing", "cancelled"}
  /\ failed \/ tones = 0
  /\ tones' = 0
  /\ errorMessage' = IF failed THEN PLAYBACK_ERROR ELSE errorMessage
  /\ responseText' = "reply_text"
  /\ isPlayingResponse' = FALSE
  /\ isSending' = FALSE
  /\ UNCHANGED <<isInitialized, outsideApp>>
  /\ SendSucceeded(i)
  /\ disabled' = (isSending' \/ isPlayingResponse')

\* AudioEngine.js:121-146: the audio context sounds the next tone that
\* playMorseSequence scheduled with osc.start(currentTime)
ToneSounds ==
  /\ tones > 0
  /\ tones' = tones - 1
  /\ UNCHANGED <<keyVars, isSending, isPlayingResponse, errorMessage,
                 responseText, isInitialized, outsideApp>>

\* part_011:189-206: the text is shown; the promise of playMorseSequence
\* is left to settle.  stopTone (AudioEngine.js:80-96) returns at once
\* unless startTone has set isPlaying and oscillator, which
\* playMorseSequence does not do: the scheduled tones are left as they are
cancelPlayback ==
  /\ isPlayingResponse
  /\ isPlayingResponse' = FALSE
  /\ responseText' = "reply_text"
  /\ calls' = [i \in DOMAIN calls |->
                IF calls[i].state = "playing"
                THEN [calls[i] EXCEPT !.state = "cancelled"]
                ELSE calls[i]]
  /\ UNCHANGED <<isPressed, pressElapsed, currentSequence, sequenceRef,
                 transmissionStatus, lastInputTimeRef, statusTimers, sends,
                 lastHandler, observed, isSending, errorMessage,
                 isInitialized, tones, outsideApp>>
  /\ AppRenders

\* part_011:231-233
clearError ==
  /\ errorMessage # ""
  /\ errorMessage' = ""
  /\ UNCHANGED <<isPressed, pressElapsed, currentSequence, sequenceRef,
                 transmissionStatus, lastInputTimeRef, statusTimers, sends,
                 calls, lastHandler, observed, isSending, isPlayingResponse,
                 responseText, isInitialized, tones, outsideApp>>
  /\ AppRenders

NextApp ==
  \/ AppMouseDown
  \/ AppMouseUp
  \/ AppBreakTimerFires
  \/ AppStatusTimerFires
  \/ AppClickClear
  \/ AppTick
  \/ AppClickSend
  \/ \E i \in DOMAIN calls, kind \in FailureKinds : BackendFails(i, kind)
  \/ \E i \in DOMAIN calls, audio \in BOOLEAN : BackendRepliesSilent(i, audio)
  \/ \E i \in DOMAIN calls : BackendRepliesPlaying(i)
  \/ \E i \in DOMAIN calls, failed \in BOOLEAN : PlaybackSettles(i, failed)
  \/ ToneSounds
  \/ cancelPlayback
  \/ clearError

SpecApp == Init /\ [][NextApp]_vars

\* C17: in the App, when the backend request of a transmission fails the
\* key shows the 'error' status and its buffer is left as it was.
C17_FailureShownAsError ==
  [][\A i \in DOMAIN calls :
       (\E kind \in FailureKinds : BackendFails(i, kind))
         => /\ transmissionStatus' = "error"
            /\ sequenceRef' = sequenceRef
            /\ currentSequence' = currentSequence]_vars

\* C23: while the audio of a response is playing and has not been
\* cancelled, no response text is displayed; when the playback ends or
\* fails the reply text is displayed.
C23_TextAfterPlayback ==
  /\ [](\A i \in DOMAIN calls :
          calls[i].state = "playing" => DisplayedResponse = "")
  /\ [][\A i \in DOMAIN calls :
          (\E failed \in BOOLEAN : PlaybackSettles(i, failed))
            => DisplayedResponse' = "reply_text"]_vars

C23_Witness ==
  /\ sends = 1
  /\ calls = <<>>
  /\ isInitialized
  /\ lastHandler = "sendSucceeded"
  /\ DisplayedResponse = "reply_text"

IsCharToken(tok) ==
  tok # <<>> /\ \A j \in 1..Len(tok) : tok[j] \in {".", "-"}

\* the first non-empty token after index i, or the empty token if there
\* is none
NextToken(toks, i) ==
  LET After(k) == k > i /\ toks[k] # <<>>
      later == SelectSeq(Indices(toks), After)
  IN  IF later = <<>> THEN <<>> ELSE toks[later[1]]

\* the timing in which every character token is followed by one character
\* gap when the next token of the string is a character token too, and the
\* other tokens leave what morseToTiming pushes for them
RECURSIVE TimingWithCharGaps(_, _)
TimingWithCharGaps(toks, i) ==
  IF i > Len(toks) THEN <<>>
  ELSE (IF IsCharToken(toks[i])
        THEN SymbolLoop(toks[i], 1)
             \o (IF IsCharToken(NextToken(toks, i)) THEN <<300>> ELSE <<>>)
        ELSE TokenTiming(toks, i))
       \o TimingWithCharGaps(toks, i + 1)

\* C24: in the timing of a Morse string of dots, dashes, spaces and word
\* separators, two character tokens that follow one another with no word
\* separator between them are separated by exactly one gap of 300 ms.
C24_OneCharGap ==
  ( /\ morseStr.type = "string"
    /\ \A k \in 1..Len(Tokens(morseStr.val)) :
         Tokens(morseStr.val)[k] = <<>> \/ IsCodeToken(Tokens(morseStr.val)[k])
    /\ Called(timing) )
  => /\ timing.type = "array"
     /\ timing.val = TimingWithCharGaps(Tokens(morseStr.val), 1)

\* C25: a reply of invokeOperatorAI (the result of applyOperatorPersona,
\* cut for brevity) has no period that is followed by whitespace and does
\* not end with a period.
C25_NoSentencePeriod ==
  personaReply.type = "string" =>
    LET r == personaReply.val
    IN  /\ \A i \in 1..Len(r) :
             r[i] = "." => (i < Len(r) /\ r[i + 1] \notin WhiteSpace)

\* C26: the endpoint never gives the response generator a message that
\* is empty or only whitespace: a morse_sequence whose decoded text is
\* blank is answered with a client error.
C26_NoBlankMessage ==
  /\ Called(aiMessage) => trim(aiMessage).val # <<>>
  /\ ( /\ pc = "done"
       /\ request.hasBody
       /\ request.morse_sequence.type = "string"
       /\ Called(decodedText)
       /\ decodedText.type = "string"
       /\ trim(decodedText).val = <<>> )
     => response.status \in 400..499

\* the key is held in a press that began less than 800 ms after the last
\* symbol
HeldSinceBeforeBreak ==
  isPressed /\ pressElapsed > 0 /\ sinceInput <= CHARACTER_BREAK

\* C27: the character break never fires while the key is held down, so
\* the symbol of a press that began before the break was due joins the
\* symbols keyed before it.
C27_NoBreakWhileHeld ==
  [][(BreakTimerFires /\ sequenceRef # <<>>) => ~HeldSinceBeforeBreak]_vars

\* C28: in the App at most one call of handleTransmissionComplete is in
\* progress: until its request and its playback have finished the key and
\* the send button are disabled, and a call only starts when none is in
\* progress.
C28_OneTransmission ==
  /\ [](/\ Len(calls) <= 1
        /\ calls # <<>> => (isSending /\ disabled /\ ~SendEnabled))
  /\ [][AppClickSend => calls = <<>>]_vars

C28_Witness ==
  /\ Len(calls) = 1
  /\ sends = 2
  /\ transmissionStatus = "idle"
  /\ currentSequence # <<>>
  /\ disabled

\* C29: after cancelPlayback no further tone of the cancelled response
\* sounds.
C29_CancelSilences ==
  [][ToneSounds => \A i \in DOMAIN calls : calls[i].state # "cancelled"]_vars

----------------------------------------------------------------------------
(* mcp-telegraph-tool.js: the stdio loop *)

\* The client's stream is a sequence of pieces: single bytes, and the two
\* ASCII fragments that every call of transmit_telegram is made of, each
\* kept whole (a 'data' event that ends inside an ASCII fragment delivers
\* the same characters in two parts).  0xC3 0xA9 is the UTF-8 encoding of
\* U+00E9.
CALL_OPEN ==
  "{\"method\":\"tools/call\",\"params\":{\"name\":\"transmit_telegram\",\"arguments\":{\"message\":\""

CALL_CLOSE == "\"}}}"

StreamPieces == {CALL_OPEN, CALL_CLOSE, "a", "0xC3", "0xA9", "\n"}

MaxStreamLen == 5

Streams == UNION {[1..n -> StreamPieces] : n \in 1..MaxStreamLen}

\* chunk.toString(): the UTF-8 decoding of the bytes of one chunk.  A lead
\* byte with its continuation byte is one character; a lead byte without
\* one, at the end of the chunk included, and a continuation byte without a
\* lead byte are each replaced by U+FFFD
DecodeAt(chunk, i) ==
  IF chunk[i] = "0xC3"
  THEN IF i < Len(chunk) /\ chunk[i + 1] = "0xA9"
       THEN <<"U+00E9">>
       ELSE <<"U+FFFD">>
  ELSE IF chunk[i] = "0xA9"
  THEN IF i > 1 /\ chunk[i - 1] = "0xC3" THEN <<>> ELSE <<"U+FFFD">>
  ELSE <<chunk[i]>>

RECURSIVE DecodeFrom(_, _)
DecodeFrom(chunk, i) ==
  IF i > Len(chunk) THEN <<>>
  ELSE DecodeAt(chunk, i) \o DecodeFrom(chunk, i + 1)

chunkToString(chunk) == DecodeFrom(chunk, 1)

PARSE_ERROR == -32700

\* the first position after `from` of a piece that holds a double quote, 0
\* when there is none
NextQuote(line, from) ==
  LET quotes == {k \in (from + 1)..Len(line) : line[k] \in {CALL_OPEN, CALL_CLOSE}}
  IN  IF quotes = {} THEN 0
      ELSE CHOOSE k \in quotes : \A j \in quotes : k <= j

\* the character JSON.parse stops at when it meets piece p where no value
\* and no member may follow
TokenOf(p) ==
  IF p = CALL_OPEN THEN "{" ELSE IF p = CALL_CLOSE THEN "\"" ELSE p

\* JSON.parse(line) for a line without white space: the request object, or
\* the SyntaxError it throws.  The text is a request when it is CALL_OPEN,
\* characters without a double quote, CALL_CLOSE; a string literal that
\* CALL_OPEN or CALL_CLOSE begins ends at the next double quote
JSONparse(line) ==
  LET q == NextQuote(line, 1)
  IN  IF line[1] \notin {CALL_OPEN, CALL_CLOSE}
      THEN Throw("SyntaxError", <<"Unexpected token ", line[1]>>)
      ELSE IF q = 0
      THEN Throw("SyntaxError", <<"Unterminated string in JSON">>)
      ELSE IF line[1] = CALL_CLOSE
      THEN Throw("SyntaxError",
                 <<"Unexpected token ", IF line[q] = CALL_OPEN THEN "m" ELSE "}">>)
      ELSE IF line[q] = CALL_OPEN
      THEN Throw("SyntaxError", <<"Unexpected token ", "m">>)
      ELSE IF q < Len(line)
      THEN Throw("SyntaxError", <<"Unexpected token ", TokenOf(line[q + 1])>>)
      ELSE [threw |-> FALSE,
            request |->
              [kind |-> "object", method |-> "tools/call",
               params |->
                 [kind |-> "object", name |-> "transmit_telegram",
                  arguments |->
                    [kind |-> "object",
                     message |-> Str(SubSeq(line, 2, q - 1))]]]]

\* lines 122-134: the response written for one non-blank line
RespondToLine(line) ==
  LET parsed == JSONparse(TrimEnd(TrimStart(line)))
  IN  IF parsed.threw
      THEN [NoMcpResponse EXCEPT
              !.kind = "error", !.code = PARSE_ERROR,
              !.message = <<"Parse error: ">> \o parsed.message]
      ELSE handleRequest(parsed.request)

IsNonBlank(line) == trim(Str(line)).val # <<>>

\* lines 113-137: the 'data' handler on a buffer and a chunk: the buffer it
\* leaves and the responses it writes
onData(buf, chunk) ==
  LET text == buf \o chunkToString(chunk)
      lines == SplitChars(text, "\n")
      complete == SubSeq(lines, 1, Len(lines) - 1)
      dispatched == SelectSeq(complete, IsNonBlank)
  IN  [buffer |-> lines[Len(lines)],
       written |-> [k \in 1..Len(dispatched) |-> RespondToLine(dispatched[k])]]

\* the client writes its stream; the pipe delivers it in chunks of any size
ClientWrites ==
  /\ stdioState = "idle"
  /\ \E stream \in Streams : stdin' = stream
  /\ stdioState' = "reading"
  /\ UNCHANGED <<consumed, buffer, stdout, outsideStdio>>

\* a 'data' event with the next n bytes of the stream
StdinData(n) ==
  /\ stdioState = "reading"
  /\ consumed + n <= Len(stdin)
  /\ LET after == onData(buffer, SubSeq(stdin, consumed + 1, consumed + n))
     IN  /\ buffer' = after.buffer
         /\ stdout' = stdout \o after.written
  /\ consumed' = consumed + n
  /\ UNCHANGED <<stdin, stdioState, outsideStdio>>

\* lines 139-141: the 'end' event, after the last byte: process.exit(0)
StdinEnd ==
  /\ stdioState = "reading"
  /\ consumed = Len(stdin)
  /\ stdioState' = "exited"
  /\ UNCHANGED <<stdin, consumed, buffer, stdout, outsideStdio>>

NextStdio ==
  \/ ClientWrites
  \/ \E n \in 1..MaxStreamLen : StdinData(n)
  \/ StdinEnd

SpecStdio == Init /\ [][NextStdio]_vars

\* the complete non-blank lines of a stream of bytes
CompleteLines(stream) ==
  LET lines == SplitChars(stream, "\n")
  IN  SelectSeq(SubSeq(lines, 1, Len(lines) - 1), IsNonBlank)

\* C30: however the stream is split into chunks, once all of it has been
\* delivered the loop has written one response for each complete
\* non-blank line, and the responses are those it writes when the whole
\* stream arrives in one chunk.
C30_ChunkingIrrelevant ==
  (stdioState # "idle" /\ consumed = Len(stdin))
    => /\ Len(stdout) = Len(CompleteLines(stdin))
       /\ stdout = onData(<<>>, stdin).written

====
